---------------------------- MODULE Spec2Model ----------------------------
(***************************************************************************)
(* A model of pathfind_demo: the occupancy grid (grid.rs), the scene with  *)
(* its pointer-mode editor and command-log animator (scene.rs), and the    *)
(* path-finding layer (pathfind.rs, pywrappers.rs).                        *)
(*                                                                         *)
(* The specifications share the variables:                                  *)
(*   Spec          the scene driven by pointer events (the grid editor)    *)
(*   SpecAnimator  the scene driven by set_draw_commands and drawn frames   *)
(*   SpecReveal    one log of a found path installed, then drawn frames    *)
(*   SpecEvents    frames with sampled pointer input (the EventTracker)    *)
(*   SpecDfs       one call of Dfs::find_path + find_and_render_path       *)
(*   SpecDfsRuns   the same call, run to its end                           *)
(*   SpecPython    calls of PythonPathfind::find_path + find_and_render    *)
(***************************************************************************)
EXTENDS Integers, Sequences, FiniteSets, TLC

(***************************************************************************)
(* Bounds of the model.                                                    *)
(***************************************************************************)
GridWidth == 2

GridHeight == 2

MaxLog == 3

MaxStep == 3

TicksPerCommand == 2

MaxPath == 2

MaxCalls == 2

MaxRuns == 2

(***************************************************************************)
(* Option<T>: None is the empty tuple, Some(v) the one-element tuple.      *)
(***************************************************************************)
None == << >>

Some(v) == << v >>

IsSome(o) == Len(o) = 1

Unwrap(o) == o[1]

Min(a, b) == IF a < b THEN a ELSE b

\* Rust's `as` cast from a fraction to an integer truncates toward zero.
TruncDiv(a, b) == IF a >= 0 THEN a \div b ELSE -((-a) \div b)

(***************************************************************************)
(* grid.rs: Grid<bool> with fixed width and height; `values` is the flat   *)
(* vector, modelled as a function on 0..width*height-1.                    *)
(***************************************************************************)
Cells == (0 .. GridWidth - 1) \X (0 .. GridHeight - 1)

NumValues == GridWidth * GridHeight

\* Grid::new: vec![T::default(); width * height]
GridNew == [i \in 0 .. NumValues - 1 |-> FALSE]

\* The mutant of the index expression that drops the stride.
FlatIndexNoStride(x, y) == y + x

\* The index expression y * self.width + x of get and set.
FlatIndex(x, y) == y * GridWidth + x

\* Grid::get, for an index inside the vector.
GridGet(values, x, y) == values[FlatIndex(x, y)]

\* The mutant of set that indexes the vector column by column.
GridSetTransposed(values, x, y, v) == [values EXCEPT ![x * GridHeight + y] = v]

\* Grid::set
GridSet(values, x, y, v) == [values EXCEPT ![FlatIndex(x, y)] = v]

\* Grid::are_coordinates_valid on signed coordinates.
AreCoordinatesValid(x, y) == x >= 0 /\ x < GridWidth /\ y >= 0 /\ y < GridHeight

\* Grid::try_get
TryGet(values, x, y) ==
    IF AreCoordinatesValid(x, y) THEN Some(GridGet(values, x, y)) ELSE None

\* The mutant of DELTAS that probes +y before +x.
DELTASYFirst == << <<0, 1>>, <<1, 0>>, <<-1, 0>>, <<0, -1>> >>

\* const DELTAS of Grid::neighbors, in its order.
DELTAS == << <<1, 0>>, <<0, 1>>, <<-1, 0>>, <<0, -1>> >>

\* Grid::neighbors: the in-range probes, in DELTAS order, each <<nx, ny, value>>.
RECURSIVE NeighborsFrom(_, _, _, _)
NeighborsFrom(values, x, y, i) ==
    IF i > Len(DELTAS) THEN << >>
    ELSE LET nx == x + DELTAS[i][1]
             ny == y + DELTAS[i][2]
             got == TryGet(values, nx, ny)
             rest == NeighborsFrom(values, x, y, i + 1)
         IN  IF IsSome(got) THEN << <<nx, ny, Unwrap(got)>> >> \o rest ELSE rest

Neighbors(values, x, y) == NeighborsFrom(values, x, y, 1)

(***************************************************************************)
(* What the unchecked Grid::get does with the `as usize` image of signed   *)
(* coordinates (scene.rs passes `x as usize, y as usize` without a bounds  *)
(* test on MouseDown).  A negative v becomes 2^64 + v.  The product        *)
(* y * width overflows when y is negative and width >= 2; the sum          *)
(* overflows when both terms are wrapped, or exactly one is and the signed *)
(* sum is non-negative.  A build with overflow checks panics there; a      *)
(* build without them wraps, and the wrapped index is the signed value     *)
(* y * width + x when that is non-negative and beyond the vector otherwise.*)
(* The index test of the vector panics in every build.                     *)
(***************************************************************************)
MulOverflows(x, y) == y < 0 /\ GridWidth >= 2

AddOverflows(x, y) ==
    LET s == y * GridWidth
    IN  \/ s < 0 /\ x < 0
        \/ (s < 0) # (x < 0) /\ s + x >= 0

IndexInVector(x, y) == FlatIndex(x, y) >= 0 /\ FlatIndex(x, y) < NumValues

\* The outcomes of grid.get(x as usize, y as usize): "ok" or "panic".
UncheckedGetOutcomes(x, y) ==
    IF ~IndexInVector(x, y) THEN {"panic"}
    ELSE IF MulOverflows(x, y) \/ AddOverflows(x, y) THEN {"ok", "panic"}
    ELSE {"ok"}

(***************************************************************************)
(* scene.rs: draw commands.  A command is a record of one shape:           *)
(* kind "Clear" (no points), "Line" (from, to), "Square" (one cell) or     *)
(* "SegmentedLine" (its points), with the line width and the colour.       *)
(***************************************************************************)
Clear == [kind |-> "Clear", points |-> << >>, width |-> 0, color |-> "none"]

AddLine(from, to, color) ==
    [kind |-> "Line", points |-> <<from, to>>, width |-> 5, color |-> color]

AddSquare(c, color) ==
    [kind |-> "Square", points |-> <<c>>, width |-> 0, color |-> color]

AddSegmentedLine(path, color) ==
    [kind |-> "SegmentedLine", points |-> path, width |-> 5, color |-> color]

VARIABLES
    grid,                \* PathtfindScene.grid.values / the grid argument of find_path
    start,               \* PathtfindScene.start / the start argument of find_path
    finish,              \* PathtfindScene.finish / the finish argument of find_path
    active_cell,         \* PathtfindScene.active_cell
    pointer_mode,        \* PathtfindScene.pointer_mode
    draw_commands,       \* PathtfindScene.draw_commands
    animation_progress,  \* PathtfindScene.animation_progress, in ticks
    rendered,            \* what the last draw() handed to the DrawContext
    panicked,            \* the host has panicked
    pc,                  \* position of the find_path call
    stack,               \* Dfs::find_path: stack
    prev,                \* Dfs::find_path: prev
    commands,            \* find_path: draw_commands / the Rc<RefCell<Vec>> of prepare_scope
    maybe_path,          \* find_path: maybe_path
    out_commands,        \* what find_and_render_path returned
    py_result,           \* PythonPathfind: the PyResult of run_python_code
    runs,                \* PythonPathfind: find_path calls made so far
    draw_calls,          \* the draw_line calls the script made in this find_path call
    down_mouse_buttons,  \* EventTracker.down_mouse_buttons
    mouse_position,      \* EventTracker.mouse_position, in scene units
    delivered,           \* the events the last frame handed to handle_event, in order
    last_click           \* per button, the type of the last click event delivered

sceneVars ==
    <<grid, start, finish, active_cell, pointer_mode, draw_commands,
      animation_progress, rendered>>

callVars == <<pc, stack, prev, commands, maybe_path, out_commands>>

pyVars == <<py_result, runs, draw_calls>>

trackerVars == <<down_mouse_buttons, mouse_position, delivered, last_click>>

vars == <<sceneVars, panicked, callVars, pyVars, trackerVars>>

(***************************************************************************)
(* The scene as a value: the fields of PathtfindScene.                     *)
(***************************************************************************)
Scene ==
    [grid |-> grid, start |-> start, finish |-> finish,
     active_cell |-> active_cell, pointer_mode |-> pointer_mode,
     draw_commands |-> draw_commands,
     animation_progress |-> animation_progress]

SetScene(s) ==
    /\ grid' = s.grid
    /\ start' = s.start
    /\ finish' = s.finish
    /\ active_cell' = s.active_cell
    /\ pointer_mode' = s.pointer_mode
    /\ draw_commands' = s.draw_commands
    /\ animation_progress' = s.animation_progress

\* PathtfindScene::new, as main.rs calls it: an empty grid, start in the
\* first corner and finish in the last one.
SceneNew ==
    [grid |-> GridNew, start |-> <<0, 0>>,
     finish |-> <<GridWidth - 1, GridHeight - 1>>,
     active_cell |-> None, pointer_mode |-> "Noop",
     draw_commands |-> << >>, animation_progress |-> 0]

\* PathtfindScene::set_draw_commands; the progress -1. is -TicksPerCommand ticks.
SetDrawCommandsOf(s, log) ==
    [s EXCEPT !.draw_commands = log, !.animation_progress = -TicksPerCommand]

\* get_cell_coordinates on one axis: ((scene_x + 2.5) / 100.) as i32.
GetCellCoordinate(scene_x) == TruncDiv(2 * scene_x + 5, 200)

\* The mutant of apply_pointer_action that keeps the old commands in every arm.
ApplyPointerActionKeepLog(s, x, y) ==
    LET is_special == <<x, y>> = s.start \/ <<x, y>> = s.finish
        is_wall == GridGet(s.grid, x, y)
    IN  CASE s.pointer_mode = "SetWall" /\ ~is_special ->
               [s EXCEPT !.grid = GridSet(s.grid, x, y, TRUE)]
          [] s.pointer_mode = "SetStart" /\ ~is_special /\ ~is_wall ->
               [s EXCEPT !.start = <<x, y>>]
          [] s.pointer_mode = "SetFinish" /\ ~is_special /\ ~is_wall ->
               [s EXCEPT !.finish = <<x, y>>]
          [] s.pointer_mode = "EraseWall" ->
               [s EXCEPT !.grid = GridSet(s.grid, x, y, FALSE)]
          [] OTHER -> s

\* The mutant of apply_pointer_action whose SetStart arm forgets the wall test.
ApplyPointerActionOntoWall(s, x, y) ==
    LET is_special == <<x, y>> = s.start \/ <<x, y>> = s.finish
        cleared == [s EXCEPT !.draw_commands = << >>]
    IN  CASE s.pointer_mode = "SetWall" /\ ~is_special ->
               [cleared EXCEPT !.grid = GridSet(s.grid, x, y, TRUE)]
          [] s.pointer_mode = "SetStart" /\ ~is_special ->
               [cleared EXCEPT !.start = <<x, y>>]
          [] s.pointer_mode = "SetFinish" /\ ~is_special ->
               [cleared EXCEPT !.finish = <<x, y>>]
          [] s.pointer_mode = "EraseWall" ->
               [cleared EXCEPT !.grid = GridSet(s.grid, x, y, FALSE)]
          [] OTHER -> s

\* The mutant of apply_pointer_action whose SetStart and SetFinish arms forget
\* the is_special test.
ApplyPointerActionOntoSpecial(s, x, y) ==
    LET is_special == <<x, y>> = s.start \/ <<x, y>> = s.finish
        is_wall == GridGet(s.grid, x, y)
        cleared == [s EXCEPT !.draw_commands = << >>]
    IN  CASE s.pointer_mode = "SetWall" /\ ~is_special ->
               [cleared EXCEPT !.grid = GridSet(s.grid, x, y, TRUE)]
          [] s.pointer_mode = "SetStart" /\ ~is_wall ->
               [cleared EXCEPT !.start = <<x, y>>]
          [] s.pointer_mode = "SetFinish" /\ ~is_wall ->
               [cleared EXCEPT !.finish = <<x, y>>]
          [] s.pointer_mode = "EraseWall" ->
               [cleared EXCEPT !.grid = GridSet(s.grid, x, y, FALSE)]
          [] OTHER -> s

\* The mutant of apply_pointer_action whose Noop mode paints a wall.
ApplyPointerActionIdlePaints(s, x, y) ==
    LET is_special == <<x, y>> = s.start \/ <<x, y>> = s.finish
        is_wall == GridGet(s.grid, x, y)
        cleared == [s EXCEPT !.draw_commands = << >>]
    IN  CASE s.pointer_mode \in {"SetWall", "Noop"} /\ ~is_special
                /\ AreCoordinatesValid(x, y) ->
               [cleared EXCEPT !.grid = GridSet(s.grid, x, y, TRUE)]
          [] s.pointer_mode = "SetStart" /\ ~is_special /\ ~is_wall ->
               [cleared EXCEPT !.start = <<x, y>>]
          [] s.pointer_mode = "SetFinish" /\ ~is_special /\ ~is_wall ->
               [cleared EXCEPT !.finish = <<x, y>>]
          [] s.pointer_mode = "EraseWall" ->
               [cleared EXCEPT !.grid = GridSet(s.grid, x, y, FALSE)]
          [] OTHER -> s

\* The mutant of apply_pointer_action whose SetFinish arm tests the wall only.
ApplyPointerActionFinishOntoStart(s, x, y) ==
    LET is_special == <<x, y>> = s.start \/ <<x, y>> = s.finish
        is_wall == GridGet(s.grid, x, y)
        cleared == [s EXCEPT !.draw_commands = << >>]
    IN  CASE s.pointer_mode = "SetWall" /\ ~is_special ->
               [cleared EXCEPT !.grid = GridSet(s.grid, x, y, TRUE)]
          [] s.pointer_mode = "SetStart" /\ ~is_special /\ ~is_wall ->
               [cleared EXCEPT !.start = <<x, y>>]
          [] s.pointer_mode = "SetFinish" /\ ~is_wall ->
               [cleared EXCEPT !.finish = <<x, y>>]
          [] s.pointer_mode = "EraseWall" ->
               [cleared EXCEPT !.grid = GridSet(s.grid, x, y, FALSE)]
          [] OTHER -> s

\* PathtfindScene::apply_pointer_action once grid.get(x, y) has returned:
\* the commands are taken out of the scene and put back only by the last arm.
ApplyPointerAction(s, x, y) ==
    LET is_special == <<x, y>> = s.start \/ <<x, y>> = s.finish
        is_wall == GridGet(s.grid, x, y)
        old_commands == s.draw_commands
        cleared == [s EXCEPT !.draw_commands = << >>]
    IN  CASE s.pointer_mode = "SetWall" /\ ~is_special ->
               [cleared EXCEPT !.grid = GridSet(s.grid, x, y, TRUE)]
          [] s.pointer_mode = "SetStart" /\ ~is_special /\ ~is_wall ->
               [cleared EXCEPT !.start = <<x, y>>]
          [] s.pointer_mode = "SetFinish" /\ ~is_special /\ ~is_wall ->
               [cleared EXCEPT !.finish = <<x, y>>]
          [] s.pointer_mode = "EraseWall" ->
               [cleared EXCEPT !.grid = GridSet(s.grid, x, y, FALSE)]
          [] OTHER -> [cleared EXCEPT !.draw_commands = old_commands]

\* The mutant of the MouseDown mode that takes a wall for a free cell.
ModeOnMouseDownWallsSwapped(s, x, y) ==
    IF <<x, y>> = s.start THEN "SetStart"
    ELSE IF <<x, y>> = s.finish THEN "SetFinish"
    ELSE LET got == TryGet(s.grid, x, y)
         IN  IF got = Some(TRUE) THEN "SetWall"
             ELSE IF got = Some(FALSE) THEN "EraseWall"
             ELSE "Noop"

\* The pointer mode a left MouseDown at cell (x, y) selects.
ModeOnMouseDown(s, x, y) ==
    IF <<x, y>> = s.start THEN "SetStart"
    ELSE IF <<x, y>> = s.finish THEN "SetFinish"
    ELSE LET got == TryGet(s.grid, x, y)
         IN  IF got = Some(TRUE) THEN "EraseWall"
             ELSE IF got = Some(FALSE) THEN "SetWall"
             ELSE "Noop"

(***************************************************************************)
(* Scene::handle_event.  An event is [type, button, x, y] with x, y in     *)
(* scene units.  The result is the set of outcomes [scene, panicked]: the  *)
(* MouseDown arm reads the grid unchecked, and that read may panic before  *)
(* anything but pointer_mode has changed.                                  *)
(***************************************************************************)
HandleEvent(s, e) ==
    LET x == GetCellCoordinate(e.x)
        y == GetCellCoordinate(e.y)
    IN  IF e.type = "MouseDown" /\ e.button = "Left" THEN
            LET moded == [s EXCEPT !.pointer_mode = ModeOnMouseDown(s, x, y)]
            IN  { [scene |-> IF o = "ok" THEN ApplyPointerAction(moded, x, y) ELSE moded,
                   panicked |-> o = "panic"] : o \in UncheckedGetOutcomes(x, y) }
        ELSE IF e.type = "MouseUp" /\ e.button = "Left" THEN
            { [scene |-> [s EXCEPT !.pointer_mode = "Noop"], panicked |-> FALSE] }
        ELSE IF e.type = "MouseMoved" THEN
            IF AreCoordinatesValid(x, y)
            THEN { [scene |-> ApplyPointerAction(
                                 [s EXCEPT !.active_cell = Some(<<x, y>>)], x, y),
                    panicked |-> FALSE] }
            ELSE { [scene |-> s, panicked |-> FALSE] }
        ELSE { [scene |-> s, panicked |-> FALSE] }

\* The mutant of update that stops advancing one command short of the end.
UpdateOfStopsOneShort(s, inc) ==
    IF s.animation_progress < 0 THEN [s EXCEPT !.animation_progress = 0]
    ELSE IF s.animation_progress < (Len(s.draw_commands) - 1) * TicksPerCommand
    THEN [s EXCEPT !.animation_progress = @ + inc]
    ELSE s

\* The mutant of update whose first tick after the sentinel already advances.
UpdateOfAdvancesOnFirstTick(s, inc) ==
    IF s.animation_progress < 0 THEN [s EXCEPT !.animation_progress = inc]
    ELSE IF s.animation_progress < Len(s.draw_commands) * TicksPerCommand
    THEN [s EXCEPT !.animation_progress = @ + inc]
    ELSE s

\* Scene::update; inc is 100. * delta in ticks.
UpdateOf(s, inc) ==
    IF s.animation_progress < 0 THEN [s EXCEPT !.animation_progress = 0]
    ELSE IF s.animation_progress < Len(s.draw_commands) * TicksPerCommand
    THEN [s EXCEPT !.animation_progress = @ + inc]
    ELSE s

\* `self.animation_progress as usize`: a saturating, truncating cast.
AsUsize(progress) == IF progress < 0 THEN 0 ELSE progress \div TicksPerCommand

\* .rfind(|cmd| matches!(cmd, Clear)) over log[..end]: the scan from the back;
\* the result is the index + 1 of the Clear found, 0 when there is none
\* (positions are 1-based here, so this is the 0-based `start` of the code).
RECURSIVE RFindClear(_, _)
RFindClear(log, end) ==
    IF end = 0 THEN 0
    ELSE IF log[end].kind = "Clear" THEN end
    ELSE RFindClear(log, end - 1)

\* The mutant of draw_animation's start that finds the first Clear instead.
RECURSIVE FindClearFrom(_, _, _)
FindClearFrom(log, i, end) ==
    IF i > end THEN 0
    ELSE IF log[i].kind = "Clear" THEN i
    ELSE FindClearFrom(log, i + 1, end)

AnimationStartFirstClear(log, end) == FindClearFrom(log, 1, end)

\* The mutant of draw_animation's start that never looks for a Clear.
AnimationStartIgnoresClear(log, end) == 0

\* The mutant of draw_animation's start that begins at the Clear found.
AnimationStartAtClear(log, end) ==
    IF RFindClear(log, end) = 0 THEN 0 ELSE RFindClear(log, end) - 1

\* draw_animation: start
AnimationStart(log, end) == RFindClear(log, end)

\* draw_animation: end
AnimationEnd(log, progress) == Min(Len(log), AsUsize(progress))

\* PathtfindScene::draw_animation: the shapes of log[start..end] in order;
\* the Clear arm is unreachable!() and panics.
DrawAnimation(log, progress) ==
    LET end == AnimationEnd(log, progress)
        st == AnimationStart(log, end)
        slice == SubSeq(log, st + 1, end)
    IN  [shapes |-> slice,
         panicked |-> \E i \in 1 .. Len(slice) : slice[i].kind = "Clear"]

\* PathtfindScene::draw_highlight: the cell highlighted, if any.
DrawHighlight(s) ==
    IF s.active_cell = Some(s.start) \/ s.pointer_mode = "SetStart"
    THEN Some(s.start)
    ELSE IF s.active_cell = Some(s.finish) \/ s.pointer_mode = "SetFinish"
    THEN Some(s.finish)
    ELSE s.active_cell

\* Scene::draw: the filled wall cells, the animation, the two marks and the
\* highlight (the bars are the same in every frame and are left out).
DrawOf(s) ==
    [walls |-> {c \in Cells : GridGet(s.grid, c[1], c[2])},
     animation |-> DrawAnimation(s.draw_commands, s.animation_progress).shapes,
     marks |-> <<s.start, s.finish>>,
     highlight |-> DrawHighlight(s)]

\* No frame drawn yet.
NothingRendered ==
    [walls |-> {}, animation |-> << >>, marks |-> << >>, highlight |-> None]

(***************************************************************************)
(* Inputs of the scene.                                                    *)
(***************************************************************************)
\* Pointer positions in scene units on an axis of n cells: one left of cell
\* -1's edge, one left of the origin that still truncates to cell 0, the
\* middle of every cell, and one beyond the last cell.
MouseAxis(n) == {-150, -50} \cup {100 * k + 50 : k \in 0 .. n}

MousePositions == MouseAxis(GridWidth) \X MouseAxis(GridHeight)

Event(type, button, x, y) == [type |-> type, button |-> button, x |-> x, y |-> y]

\* MouseUp and the other buttons ignore the position: one position stands for all.
Events ==
    {Event(t, "Left", p[1], p[2]) : t \in {"MouseDown", "MouseMoved"}, p \in MousePositions}
    \cup {Event("MouseUp", "Left", 50, 50)}
    \cup {Event(t, b, 50, 50) : t \in {"MouseDown", "MouseUp"}, b \in {"Right", "Middle"}}

c0 == <<0, 0>>

c1 == <<1, 0>>

CommandAlphabet ==
    {Clear, AddLine(c0, c1, "DARKGREEN"), AddSquare(c0, "DARKGREEN"),
     AddSegmentedLine(<<c0, c1>>, "LIME")}

SeqsUpTo(S, n) == UNION {[1 .. k -> S] : k \in 0 .. n}

\* The logs set_draw_commands is given in SpecAnimator.
Logs == SeqsUpTo(CommandAlphabet, MaxLog)

\* The log set_draw_commands is given in Spec: one run that found a path.
EditorLogs ==
    { <<AddLine(c0, c1, "DARKGREEN"), Clear, AddSegmentedLine(<<c0, c1>>, "LIME")>> }

(***************************************************************************)
(* The find_path call frame when no call is in progress.                   *)
(***************************************************************************)
(***************************************************************************)
(* Python objects that cross the boundary: [tag, int, items] with tag      *)
(* "none", "int" (its value in int), "list" or "tuple" (its items).        *)
(***************************************************************************)
PyNone == [tag |-> "none", int |-> 0, items |-> << >>]

PyInt(n) == [tag |-> "int", int |-> n, items |-> << >>]

PyList(items) == [tag |-> "list", int |-> 0, items |-> items]

PyTuple(items) == [tag |-> "tuple", int |-> 0, items |-> items]

\* A PyResult: "none" before run_python_code has ended, then "ok" with the
\* value the call returned or "err" with the exception.
NoResult == [tag |-> "none", error |-> "", value |-> PyNone]

PyOk(v) == [tag |-> "ok", error |-> "", value |-> v]

PyErr(what) == [tag |-> "err", error |-> what, value |-> PyNone]

(***************************************************************************)
(* runner.rs: the EventTracker.  A frame samples the pointer position (in  *)
(* scene units, after translate_coordinates) and the set of buttons that   *)
(* are down.                                                               *)
(***************************************************************************)
\* The buttons in the order generate_events visits them.
Buttons == <<"Left", "Right", "Middle">>

ButtonSet == {Buttons[i] : i \in 1 .. Len(Buttons)}

\* EventTracker::default(), and nothing delivered yet.
TrackerNew ==
    /\ down_mouse_buttons = {}
    /\ mouse_position = <<0, 0>>
    /\ delivered = << >>
    /\ last_click = [b \in ButtonSet |-> "none"]

\* The mutant of the click test that does not look at was_down.
ClickEventIgnoringWasDown(button, is_down, was_down, pos) ==
    IF is_down THEN Some(Event("MouseDown", button, pos[1], pos[2]))
    ELSE IF was_down THEN Some(Event("MouseUp", button, pos[1], pos[2]))
    ELSE None

\* The filter_map closure of generate_events: the click event of one button.
ClickEvent(button, is_down, was_down, pos) ==
    IF is_down /\ ~was_down THEN Some(Event("MouseDown", button, pos[1], pos[2]))
    ELSE IF ~is_down /\ was_down THEN Some(Event("MouseUp", button, pos[1], pos[2]))
    ELSE None

\* down_mouse_buttons after the closure has yielded the event.
DownAfter(down, e) ==
    IF e.type = "MouseDown" THEN down \cup {e.button}
    ELSE IF e.type = "MouseUp" THEN down \ {e.button}
    ELSE down

\* click_events: the closure over the buttons from the i-th on.
RECURSIVE ClickEventsFrom(_, _, _, _)
ClickEventsFrom(down, is_down, pos, i) ==
    IF i > Len(Buttons) THEN << >>
    ELSE LET button == Buttons[i]
             e == ClickEvent(button, button \in is_down, button \in down, pos)
         IN  IF IsSome(e)
             THEN <<Unwrap(e)>> \o ClickEventsFrom(DownAfter(down, Unwrap(e)), is_down, pos, i + 1)
             ELSE ClickEventsFrom(down, is_down, pos, i + 1)

\* move_event (the button field of a MouseMoved is a filler).
MoveEvent(old_position, pos) ==
    IF pos # old_position THEN <<Event("MouseMoved", "Left", pos[1], pos[2])>> ELSE << >>

\* EventTracker::generate_events: click_events.chain(move_event)
GenerateEvents(down, old_position, pos, is_down) ==
    ClickEventsFrom(down, is_down, pos, 1) \o MoveEvent(old_position, pos)

\* `for event in generate_events() { scene.handle_event(event) }` from the
\* i-th event on: the outcomes [scene, panicked, delivered]; a panic in
\* handle_event ends the loop with the events pulled so far.
RECURSIVE DeliverFrom(_, _, _)
DeliverFrom(s, events, i) ==
    IF i > Len(events)
    THEN {[scene |-> s, panicked |-> FALSE, delivered |-> events]}
    ELSE UNION {IF o.panicked
                THEN {[scene |-> o.scene, panicked |-> TRUE,
                       delivered |-> SubSeq(events, 1, i)]}
                ELSE DeliverFrom(o.scene, events, i + 1) : o \in HandleEvent(s, events[i])}

\* down_mouse_buttons after the events pulled from the iterator.
RECURSIVE DownAfterAll(_, _, _)
DownAfterAll(down, events, i) ==
    IF i > Len(events) THEN down
    ELSE DownAfterAll(DownAfter(down, events[i]), events, i + 1)

\* The last click event of each button after the events delivered.
RECURSIVE LastClickAfter(_, _, _)
LastClickAfter(last, events, i) ==
    IF i > Len(events) THEN last
    ELSE LastClickAfter(IF events[i].type \in {"MouseDown", "MouseUp"}
                        THEN [last EXCEPT ![events[i].button] = events[i].type]
                        ELSE last,
                        events, i + 1)

\* The pointer positions sampled: the first cell, the last cell of the first
\* row, and a cell beyond the grid.
SamplePositions ==
    {<<50, 50>>, <<100 * (GridWidth - 1) + 50, 50>>,
     <<100 * GridWidth + 50, 100 * (GridHeight - 1) + 50>>}

NoCall ==
    /\ pc = "none"
    /\ stack = << >>
    /\ prev = << >>
    /\ commands = << >>
    /\ maybe_path = None
    /\ out_commands = << >>
    /\ py_result = NoResult
    /\ runs = 0
    /\ draw_calls = << >>
    /\ TrackerNew

(***************************************************************************)
(* The scene's operations as actions.                                      *)
(***************************************************************************)
SceneInit ==
    /\ grid = SceneNew.grid
    /\ start = SceneNew.start
    /\ finish = SceneNew.finish
    /\ active_cell = SceneNew.active_cell
    /\ pointer_mode = SceneNew.pointer_mode
    /\ draw_commands = SceneNew.draw_commands
    /\ animation_progress = SceneNew.animation_progress
    /\ rendered = NothingRendered
    /\ panicked = FALSE
    /\ NoCall


\* One handle_event call.
HandleEventStep(e) ==
    /\ ~panicked
    /\ \E o \in HandleEvent(Scene, e) :
          /\ SetScene(o.scene)
          /\ panicked' = o.panicked
    /\ UNCHANGED <<trackerVars, rendered, callVars, pyVars>>

PointerEvent == \E e \in Events : HandleEventStep(e)

\* One set_draw_commands call.
SetDrawCommands(log) ==
    /\ ~panicked
    /\ SetScene(SetDrawCommandsOf(Scene, log))
    /\ UNCHANGED <<trackerVars, rendered, panicked, callVars, pyVars>>

\* One update call; inc is 100. * delta in ticks.
Update(inc) ==
    /\ ~panicked
    /\ SetScene(UpdateOf(Scene, inc))
    /\ UNCHANGED <<trackerVars, rendered, panicked, callVars, pyVars>>

\* Runner::update_and_draw_scene in a frame without input events:
\* scene.update(delta), then scene.draw(..).
UpdateAndDrawScene(inc) ==
    /\ ~panicked
    /\ LET s == UpdateOf(Scene, inc)
       IN  /\ SetScene(s)
           /\ rendered' = DrawOf(s)
           /\ panicked' = DrawAnimation(s.draw_commands, s.animation_progress).panicked
    /\ UNCHANGED <<trackerVars, callVars, pyVars>>

RunInstalled == \E log \in EditorLogs : SetDrawCommands(log)

Tick == Update(MaxStep)

NextEditor == PointerEvent \/ RunInstalled \/ Tick

Spec == SceneInit /\ [][NextEditor]_vars

LogInstalled == \E log \in Logs : SetDrawCommands(log)

Frame == \E inc \in 0 .. MaxStep : UpdateAndDrawScene(inc)

NextAnimator == LogInstalled \/ Frame

SpecAnimator == SceneInit /\ [][NextAnimator]_vars

\* Runner::update_and_draw_scene with the input sampled in the frame:
\* scene.update(delta), the events of generate_events handed to
\* handle_event one by one, then scene.draw(..).
UpdateAndDrawSceneWithInput(inc, pos, is_down) ==
    /\ ~panicked
    /\ LET updated == UpdateOf(Scene, inc)
           events == GenerateEvents(down_mouse_buttons, mouse_position, pos, is_down)
       IN  \E o \in DeliverFrom(updated, events, 1) :
              /\ SetScene(o.scene)
              /\ delivered' = o.delivered
              /\ down_mouse_buttons' = DownAfterAll(down_mouse_buttons, o.delivered, 1)
              /\ last_click' = LastClickAfter(last_click, o.delivered, 1)
              /\ IF o.panicked
                 THEN rendered' = rendered /\ panicked' = TRUE
                 ELSE /\ rendered' = DrawOf(o.scene)
                      /\ panicked' = DrawAnimation(o.scene.draw_commands,
                                                   o.scene.animation_progress).panicked
    /\ mouse_position' = pos
    /\ UNCHANGED <<callVars, pyVars>>

InputFrame ==
    \E pos \in SamplePositions, is_down \in SUBSET ButtonSet :
        UpdateAndDrawSceneWithInput(MaxStep, pos, is_down)

NextEvents == InputFrame

SpecEvents == SceneInit /\ [][NextEvents]_vars

(***************************************************************************)
(* pathfind.rs: find_and_render_path and Dfs::find_path.                   *)
(***************************************************************************)
\* The mutant of find_and_render_path that appends the path without the Clear.
FindAndRenderPathNoClear(path, log) ==
    IF IsSome(path)
    THEN log \o <<AddSegmentedLine(Unwrap(path), "LIME")>>
    ELSE log

\* find_and_render_path, given what algo.find_path returned.
FindAndRenderPath(path, log) ==
    IF IsSome(path)
    THEN log \o <<Clear, AddSegmentedLine(Unwrap(path), "LIME")>>
    ELSE log

(***************************************************************************)
(* The reveal of a found path: set_draw_commands is called once, with a    *)
(* log find_and_render_path returned for a found path, and the runner then *)
(* draws frames whose elapsed time is positive (at least one tick).  The   *)
(* runner's loop calls update_and_draw_scene in every frame, hence the     *)
(* weak fairness of the frame.                                             *)
(***************************************************************************)
LineAlphabet == {AddLine(c0, c1, "DARKGREEN"), AddLine(c1, c0, "DARKGREEN")}

FoundPaths == {<<c0>>, <<c0, c1>>}

PathLogs ==
    {FindAndRenderPath(Some(path), lines) :
        path \in FoundPaths, lines \in SeqsUpTo(LineAlphabet, MaxLog)}

InstallPathLog ==
    /\ draw_commands = << >>
    /\ \E log \in PathLogs : SetDrawCommands(log)

PositiveFrame == \E inc \in 1 .. MaxStep : UpdateAndDrawScene(inc)

NextReveal == InstallPathLog \/ PositiveFrame

SpecReveal == SceneInit /\ [][NextReveal]_vars /\ WF_vars(PositiveFrame)

\* The frame of Dfs::find_path: [pc, stack, prev, commands, maybe_path].
\* The mutant of the entry that has no start == finish shortcut.
DfsEntryNoShortcut(st, fin) ==
    [pc |-> "loop", stack |-> <<st>>, prev |-> (st :> st),
     commands |-> << >>, maybe_path |-> None]

\* Dfs::find_path up to the main loop.
DfsEntry(st, fin) ==
    IF st = fin
    THEN [pc |-> "returned", stack |-> << >>, prev |-> << >>,
          commands |-> << >>, maybe_path |-> Some(<<st>>)]
    ELSE [pc |-> "loop", stack |-> <<st>>, prev |-> (st :> st),
          commands |-> << >>, maybe_path |-> None]

\* The mutant of the neighbour test that forgets is_occupied.
SkipNeighborIgnoringWalls(is_occupied, n, seen) == n \in DOMAIN seen

\* The mutant of the neighbour test that forgets the cells already seen,
\* the cell the search started from excepted.
SkipNeighborSeenOnlyAtStart(is_occupied, n, seen) ==
    is_occupied \/ (n \in DOMAIN seen /\ seen[n] = n)

\* `if is_occupied || prev.contains_key(&(nx, ny)) { continue; }`
SkipNeighbor(is_occupied, n, seen) == is_occupied \/ n \in DOMAIN seen

\* The body of the for loop over grid.neighbors(x, y), from the i-th neighbour
\* on; f is the frame, and pc = "reconstruct" after `break 'main_loop`.
RECURSIVE VisitNeighbors(_, _, _, _, _)
VisitNeighbors(f, ns, i, from, fin) ==
    IF i > Len(ns) THEN f
    ELSE LET n == <<ns[i][1], ns[i][2]>>
             is_occupied == ns[i][3]
         IN  IF SkipNeighbor(is_occupied, n, f.prev)
             THEN VisitNeighbors(f, ns, i + 1, from, fin)
             ELSE LET g == [f EXCEPT
                              !.prev = (n :> from) @@ f.prev,
                              !.commands = Append(f.commands, AddLine(from, n, "DARKGREEN"))]
                  IN  IF n = fin
                      THEN [g EXCEPT !.pc = "reconstruct"]
                      ELSE VisitNeighbors([g EXCEPT !.stack = Append(g.stack, n)],
                                          ns, i + 1, from, fin)

\* One iteration of `while let Some((x, y)) = stack.pop()`.
DfsIteration(f, values, fin) ==
    LET top == f.stack[Len(f.stack)]
        popped == [f EXCEPT !.stack = SubSeq(f.stack, 1, Len(f.stack) - 1)]
    IN  VisitNeighbors(popped, Neighbors(values, top[1], top[2]), 1, top, fin)

Reverse(s) == [i \in 1 .. Len(s) |-> s[Len(s) + 1 - i]]

\* `while path.last().unwrap() != &start { path.push(*prev.get(last).unwrap()) }`
RECURSIVE WalkBack(_, _, _)
WalkBack(path, seen, st) ==
    IF path[Len(path)] = st THEN path
    ELSE WalkBack(Append(path, seen[path[Len(path)]]), seen, st)

\* The mutant of the reconstruction that leaves the path in walking order.
ReconstructNoReverse(seen, st, fin) ==
    IF fin \in DOMAIN seen THEN Some(WalkBack(<<fin>>, seen, st)) ELSE None

\* `let maybe_path = if prev.contains_key(&finish) { ... } else { None }`
Reconstruct(seen, st, fin) ==
    IF fin \in DOMAIN seen THEN Some(Reverse(WalkBack(<<fin>>, seen, st))) ELSE None

CallFrame == [pc |-> pc, stack |-> stack, prev |-> prev, commands |-> commands,
           maybe_path |-> maybe_path]

SetFrame(f) ==
    /\ pc' = f.pc
    /\ stack' = f.stack
    /\ prev' = f.prev
    /\ commands' = f.commands
    /\ maybe_path' = f.maybe_path

Grids == [0 .. NumValues - 1 -> BOOLEAN]

\* A call of find_and_render_path(&Dfs {}, grid, start, finish) on any grid
\* and any two cells.
DfsInit ==
    /\ grid \in Grids
    /\ start \in Cells
    /\ finish \in Cells
    /\ active_cell = None
    /\ pointer_mode = "Noop"
    /\ draw_commands = << >>
    /\ animation_progress = 0
    /\ rendered = NothingRendered
    /\ panicked = FALSE
    /\ pc = "call"
    /\ stack = << >>
    /\ prev = << >>
    /\ commands = << >>
    /\ maybe_path = None
    /\ out_commands = << >>
    /\ py_result = NoResult
    /\ runs = 0
    /\ draw_calls = << >>
    /\ TrackerNew

DfsEnter ==
    /\ pc = "call"
    /\ SetFrame(DfsEntry(start, finish))
    /\ UNCHANGED <<trackerVars, sceneVars, panicked, out_commands, pyVars>>

DfsVisit ==
    /\ pc = "loop"
    /\ stack # << >>
    /\ SetFrame(DfsIteration(CallFrame, grid, finish))
    /\ UNCHANGED <<trackerVars, sceneVars, panicked, out_commands, pyVars>>

DfsExhausted ==
    /\ pc = "loop"
    /\ stack = << >>
    /\ pc' = "reconstruct"
    /\ UNCHANGED <<trackerVars, sceneVars, panicked, stack, prev, commands, maybe_path,
                   out_commands, pyVars>>

DfsReconstruct ==
    /\ pc = "reconstruct"
    /\ maybe_path' = Reconstruct(prev, start, finish)
    /\ pc' = "returned"
    /\ UNCHANGED <<trackerVars, sceneVars, panicked, stack, prev, commands, out_commands, pyVars>>

\* find_and_render_path after algo.find_path has returned.
FindAndRender ==
    /\ pc = "returned"
    /\ ~panicked
    /\ out_commands' = FindAndRenderPath(maybe_path, commands)
    /\ pc' = "rendered"
    /\ UNCHANGED <<trackerVars, sceneVars, panicked, stack, prev, commands, maybe_path, pyVars>>

NextDfs == DfsEnter \/ DfsVisit \/ DfsExhausted \/ DfsReconstruct \/ FindAndRender

SpecDfs == DfsInit /\ [][NextDfs]_vars

\* The call runs to its end: sequential code takes its next step.
SpecDfsRuns == DfsInit /\ [][NextDfs]_vars /\ WF_vars(NextDfs)

(***************************************************************************)
(* pywrappers.rs and PythonPathfind (pathfind.rs).  A conversion returns   *)
(* an Option: None for Err(exception), Some(v) for Ok(v).                  *)
(***************************************************************************)
\* usize::try_from_object: an int that is not negative.
UsizeFromObject(obj) ==
    IF obj.tag = "int" /\ obj.int >= 0 THEN Some(obj.int) ELSE None

\* PyTuple2Wrapper<usize, usize>::try_from_object
Tuple2FromObject(obj) ==
    IF obj.tag # "tuple" THEN None
    ELSE IF Len(obj.items) # 2 THEN None
    ELSE LET a == UsizeFromObject(obj.items[1])
             b == UsizeFromObject(obj.items[2])
         IN  IF IsSome(a) /\ IsSome(b) THEN Some(<<Unwrap(a), Unwrap(b)>>) ELSE None

\* The loop of PyVecWrapper::try_from_object from the i-th item on.
RECURSIVE VecItemsFrom(_, _, _)
VecItemsFrom(items, i, vec) ==
    IF i > Len(items) THEN Some(vec)
    ELSE LET item == Tuple2FromObject(items[i])
         IN  IF IsSome(item)
             THEN VecItemsFrom(items, i + 1, Append(vec, Unwrap(item)))
             ELSE None

\* PyVecWrapper<PyTuple2Wrapper<usize, usize>>::try_from_object: PyIterable
\* takes the lists and the tuples among the modelled objects.
VecFromObject(obj) ==
    IF obj.tag \in {"list", "tuple"} THEN VecItemsFrom(obj.items, 1, << >>) ELSE None

\* Option::<PyVecWrapper<..>>::try_from_object: Python's None is Ok(None).
OptionVecFromObject(obj) ==
    IF obj.tag = "none" THEN Some(None)
    ELSE LET v == VecFromObject(obj)
         IN  IF IsSome(v) THEN Some(Some(Unwrap(v))) ELSE None

\* The objects a script hands back as items of its result.
PyItems ==
    {PyInt(0), PyTuple(<<PyInt(0), PyInt(0)>>), PyTuple(<<PyInt(1), PyInt(0)>>),
     PyTuple(<<PyInt(-1), PyInt(0)>>), PyTuple(<<PyInt(0), PyNone>>),
     PyTuple(<<PyInt(0), PyInt(0), PyInt(0)>>), PyList(<<PyInt(0), PyInt(0)>>)}

\* The objects a script's find_path returns.
PyReturnValues ==
    {PyNone, PyInt(5)}
    \cup {PyList(s) : s \in SeqsUpTo(PyItems, MaxPath)}
    \cup {PyTuple(s) : s \in SeqsUpTo(PyItems, MaxPath)}

\* The arguments a script passes to draw_line.
DrawLineFroms == {PyTuple(<<PyInt(0), PyInt(0)>>), PyInt(0)}

DrawLineTos ==
    {PyTuple(<<PyInt(1), PyInt(0)>>), PyTuple(<<PyInt(0), PyInt(1)>>),
     PyTuple(<<PyInt(-1), PyInt(0)>>)}

\* What the script finds under the global name find_path after its top level.
EntryKinds == {"missing", "not_function", "function"}

PythonInit ==
    /\ grid = SceneNew.grid
    /\ start = SceneNew.start
    /\ finish = SceneNew.finish
    /\ active_cell = SceneNew.active_cell
    /\ pointer_mode = SceneNew.pointer_mode
    /\ draw_commands = SceneNew.draw_commands
    /\ animation_progress = SceneNew.animation_progress
    /\ rendered = NothingRendered
    /\ panicked = FALSE
    /\ pc = "idle"
    /\ stack = << >>
    /\ prev = << >>
    /\ commands = << >>
    /\ maybe_path = None
    /\ out_commands = << >>
    /\ py_result = NoResult
    /\ runs = 0
    /\ draw_calls = << >>
    /\ TrackerNew

\* The mutant of the call whose prepare_scope goes on with the log of the
\* call before.
PyInvokeSharedLog ==
    /\ pc \in {"idle", "rendered"}
    /\ ~panicked
    /\ runs < MaxRuns
    /\ runs' = runs + 1
    /\ pc' = "top_level"
    /\ maybe_path' = None
    /\ py_result' = NoResult
    /\ draw_calls' = << >>
    /\ UNCHANGED <<trackerVars, sceneVars, panicked, stack, prev, commands, out_commands>>

\* find_and_render_path(&PythonPathfind, ..) is called: find_path enters the
\* interpreter and prepare_scope makes the scope and a new, empty log.
PyInvoke ==
    /\ pc \in {"idle", "rendered"}
    /\ ~panicked
    /\ runs < MaxRuns
    /\ runs' = runs + 1
    /\ pc' = "top_level"
    /\ commands' = << >>
    /\ maybe_path' = None
    /\ py_result' = NoResult
    /\ draw_calls' = << >>
    /\ UNCHANGED <<trackerVars, sceneVars, panicked, stack, prev, out_commands>>

\* The script calls draw_line(from, to), at its top level or inside find_path:
\* the arguments are converted, and the closure pushes a Line; arguments that
\* do not convert raise a TypeError in the script and push nothing.
PyDrawLine(from, to) ==
    /\ pc \in {"top_level", "entry"}
    /\ Len(draw_calls) < MaxCalls
    /\ draw_calls' = Append(draw_calls, <<from, to>>)
    /\ LET a == Tuple2FromObject(from)
           b == Tuple2FromObject(to)
       IN  commands' = IF IsSome(a) /\ IsSome(b)
                       THEN Append(commands, AddLine(Unwrap(a), Unwrap(b), "DARKGREEN"))
                       ELSE commands
    /\ UNCHANGED <<trackerVars, sceneVars, panicked, pc, stack, prev, maybe_path, out_commands,
                   py_result, runs>>

\* vm.run_code_obj(..)? fails: the top level of the script raised.
PyTopLevelRaises ==
    /\ pc = "top_level"
    /\ py_result' = PyErr("raised at top level")
    /\ pc' = "ran"
    /\ UNCHANGED <<trackerVars, sceneVars, panicked, stack, prev, commands, maybe_path,
                   out_commands, runs, draw_calls>>

\* The top level has run; scope.globals.get_item("find_path")? and the
\* downcast to PyFunction either fail or give the function to call.
PyLookup(kind) ==
    /\ pc = "top_level"
    /\ IF kind = "function"
       THEN pc' = "entry" /\ py_result' = py_result
       ELSE /\ pc' = "ran"
            /\ py_result' = IF kind = "missing"
                            THEN PyErr("KeyError: find_path")
                            ELSE PyErr("TypeError: Expected 'find_path' to be a function")
    /\ UNCHANGED <<trackerVars, sceneVars, panicked, stack, prev, commands, maybe_path,
                   out_commands, runs, draw_calls>>

\* Callable::call returns Err: find_path raised.
PyEntryRaises ==
    /\ pc = "entry"
    /\ py_result' = PyErr("raised in find_path")
    /\ pc' = "ran"
    /\ UNCHANGED <<trackerVars, sceneVars, panicked, stack, prev, commands, maybe_path,
                   out_commands, runs, draw_calls>>

\* Callable::call returns Ok(value).
PyEntryReturns(value) ==
    /\ pc = "entry"
    /\ py_result' = PyOk(value)
    /\ pc' = "ran"
    /\ UNCHANGED <<trackerVars, sceneVars, panicked, stack, prev, commands, maybe_path,
                   out_commands, runs, draw_calls>>

\* PythonPathfind::find_path after run_python_code: .unwrap() of the
\* PyResult, the conversion of the value and .unwrap() of its result; each
\* unwrap of an Err panics.
PyFinish ==
    /\ pc = "ran"
    /\ LET conv == IF py_result.tag = "ok"
                   THEN OptionVecFromObject(py_result.value)
                   ELSE None
       IN  IF py_result.tag = "ok" /\ IsSome(conv)
           THEN /\ maybe_path' = Unwrap(conv)
                /\ pc' = "returned"
                /\ panicked' = FALSE
           ELSE /\ maybe_path' = maybe_path
                /\ pc' = "panicked"
                /\ panicked' = TRUE
    /\ UNCHANGED <<trackerVars, sceneVars, stack, prev, commands, out_commands, pyVars>>

ScriptDrawsLine == \E from \in DrawLineFroms, to \in DrawLineTos : PyDrawLine(from, to)

TopLevelDone == \E kind \in EntryKinds : PyLookup(kind)

EntryReturns == \E value \in PyReturnValues : PyEntryReturns(value)

NextPython ==
    \/ PyInvoke
    \/ ScriptDrawsLine
    \/ PyTopLevelRaises
    \/ TopLevelDone
    \/ PyEntryRaises
    \/ EntryReturns
    \/ PyFinish
    \/ FindAndRender

SpecPython == PythonInit /\ [][NextPython]_vars

(***************************************************************************)
(* PROPERTIES                                                              *)
(***************************************************************************)
CellOf(e) == <<GetCellCoordinate(e.x), GetCellCoordinate(e.y)>>

IsWall(c) == c \in Cells /\ grid[c[2] * GridWidth + c[1]]

IsSpecial(c) == c = start \/ c = finish

\* The event applies a mode's action that takes effect, read off the state
\* before the event.
ActionTakesEffect(e) ==
    LET c == CellOf(e)
    IN  /\ c \in Cells
        /\ \/ e.type = "MouseDown" /\ e.button = "Left" /\ ~IsSpecial(c)
           \/ /\ e.type = "MouseMoved"
              /\ \/ pointer_mode = "EraseWall"
                 \/ pointer_mode = "SetWall" /\ ~IsSpecial(c)
                 \/ pointer_mode \in {"SetStart", "SetFinish"} /\ ~IsSpecial(c) /\ ~IsWall(c)

C2_EndpointsInGridAndFree ==
    /\ start \in Cells
    /\ finish \in Cells
    /\ ~IsWall(start)
    /\ ~IsWall(finish)

\* Both endpoints have been dragged away and their old cells walled.
C2_Witness ==
    /\ start # SceneNew.start
    /\ finish # SceneNew.finish
    /\ IsWall(SceneNew.start)
    /\ IsWall(SceneNew.finish)
    /\ pointer_mode = "SetStart"

(***************************************************************************)
(* The pointer-mode editor, event by event.  PaintWall, EraseWall,         *)
(* DragStart, DragFinish and Idle are the code's SetWall, EraseWall,       *)
(* SetStart, SetFinish and Noop.                                           *)
(***************************************************************************)
IsLeftDown(e) == e.type = "MouseDown" /\ e.button = "Left"

IsLeftUp(e) == e.type = "MouseUp" /\ e.button = "Left"

\* The event applies a mode's action at a cell: a left press or a move.
AppliesAction(e) == IsLeftDown(e) \/ e.type = "MouseMoved"

SlotOf(c) == c[2] * GridWidth + c[1]

Walls == {c \in Cells : IsWall(c)}

\* C14: a left pointer-down at an in-grid cell C sets the mode to SetStart
\* if C = start, else SetFinish if C = finish, else EraseWall if C is
\* occupied, else SetWall, and applies it at once: a free cell that is
\* neither start nor finish becomes occupied, an occupied cell becomes free,
\* no other cell changes, a press on start or finish changes no cell, and
\* start and finish stay; the press does not panic.
C14_LeftDownSelectsAndApplies ==
    [][\A e \in Events :
         IsLeftDown(e) /\ CellOf(e) \in Cells /\ HandleEventStep(e) =>
            LET c == CellOf(e)
            IN  /\ pointer_mode' = IF c = start THEN "SetStart"
                                   ELSE IF c = finish THEN "SetFinish"
                                   ELSE IF IsWall(c) THEN "EraseWall"
                                   ELSE "SetWall"
                /\ grid' = IF IsSpecial(c) THEN grid
                           ELSE [grid EXCEPT ![SlotOf(c)] = ~grid[SlotOf(c)]]
                /\ start' = start
                /\ finish' = finish
                /\ ~panicked']_vars

\* A wall painted by one press and erased by a second one, the pointer never
\* having moved over the grid.
C14_Witness ==
    /\ pointer_mode = "EraseWall"
    /\ Walls = {}
    /\ active_cell = None
    /\ ~panicked

\* C15: a left pointer-down at a cell outside the grid sets the mode to Noop
\* and is a silent no-op: grid, start and finish stay, and the host does not
\* panic in the unchecked Grid::get.
C15_OutOfGridPressIsNoop ==
    [][\A e \in Events :
         IsLeftDown(e) /\ CellOf(e) \notin Cells /\ HandleEventStep(e) =>
            /\ pointer_mode' = "Noop"
            /\ grid' = grid
            /\ start' = start
            /\ finish' = finish
            /\ ~panicked']_vars

\* C16: an action at an in-grid cell C in SetStart mode sets start to C
\* exactly when C is not finish and not occupied and otherwise leaves start;
\* in SetFinish mode the same holds of finish with start for finish; the
\* occupancy and the other endpoint are unchanged in both.
C16_DragRelocatesEndpoint ==
    [][\A e \in Events :
         /\ AppliesAction(e)
         /\ CellOf(e) \in Cells
         /\ HandleEventStep(e)
         /\ pointer_mode' \in {"SetStart", "SetFinish"}
         => LET c == CellOf(e)
            IN  /\ grid' = grid
                /\ pointer_mode' = "SetStart" =>
                      /\ start' = IF c # finish /\ ~IsWall(c) THEN c ELSE start
                      /\ finish' = finish
                /\ pointer_mode' = "SetFinish" =>
                      /\ finish' = IF c # start /\ ~IsWall(c) THEN c ELSE finish
                      /\ start' = start]_vars

\* Finish has been dragged away from its corner and the drag has then
\* passed over start, which refused it.
C16_Witness ==
    /\ pointer_mode = "SetFinish"
    /\ finish # SceneNew.finish
    /\ active_cell = Some(start)
    /\ start # finish

\* C17: an EraseWall action at an in-grid cell C leaves C unoccupied
\* whatever was painted before, changes no other cell, and moves neither
\* start nor finish.
C17_EraseClearsTheCellOnly ==
    [][\A e \in Events :
         /\ AppliesAction(e)
         /\ CellOf(e) \in Cells
         /\ HandleEventStep(e)
         /\ pointer_mode' = "EraseWall"
         => /\ grid' = [grid EXCEPT ![SlotOf(CellOf(e))] = FALSE]
            /\ start' = start
            /\ finish' = finish]_vars

\* An erasing drag has reached a cell that is now free while a wall painted
\* elsewhere is still there.
C17_Witness ==
    /\ pointer_mode = "EraseWall"
    /\ IsSome(active_cell)
    /\ ~IsWall(Unwrap(active_cell))
    /\ ~IsSpecial(Unwrap(active_cell))
    /\ Cardinality(Walls) = 1

\* C18: a left pointer-up sets the mode to Noop; while the mode is Noop no
\* step other than a left pointer-down changes the mode, the grid, start or
\* finish (pointer-moved events included); pointer-down and pointer-up of
\* the right or middle button never change the mode, grid, start or finish.
C18_IdleAfterLeftUp ==
    [][/\ \A e \in Events :
             HandleEventStep(e) =>
                /\ IsLeftUp(e) => pointer_mode' = "Noop"
                /\ e.button \in {"Right", "Middle"} =>
                      UNCHANGED <<pointer_mode, grid, start, finish>>
       /\ pointer_mode = "Noop" /\ ~(\E e \in Events : IsLeftDown(e) /\ HandleEventStep(e))
             => UNCHANGED <<pointer_mode, grid, start, finish>>]_vars

\* After a wall was painted and the button released, the pointer has moved
\* onto a free cell that is neither start nor finish, and the cell is free.
C18_Witness ==
    /\ pointer_mode = "Noop"
    /\ IsSome(active_cell)
    /\ ~IsWall(Unwrap(active_cell))
    /\ ~IsSpecial(Unwrap(active_cell))
    /\ Walls # {}

(***************************************************************************)
(* The grid's checked reads.                                               *)
(***************************************************************************)
\* The four probes of a cell, in the order +x, +y, -x, -y.
NeighborCandidates(c) ==
    << <<c[1] + 1, c[2]>>, <<c[1], c[2] + 1>>, <<c[1] - 1, c[2]>>, <<c[1], c[2] - 1>> >>

InGrid(c) ==
    /\ 0 <= c[1]
    /\ c[1] < GridWidth
    /\ 0 <= c[2]
    /\ c[2] < GridHeight

ExpectedNeighbors(c) ==
    LET inside == SelectSeq(NeighborCandidates(c), InGrid)
    IN  [i \in 1 .. Len(inside) |->
            <<inside[i][1], inside[i][2], grid[SlotOf(inside[i])]>>]

\* C19: for the grid of the call and every in-grid (x, y), neighbors(x, y)
\* yields the in-grid members of ((x+1,y), (x,y+1), (x-1,y), (x,y-1)) in
\* that order, each with the occupancy of that cell, and nothing else.
C19_NeighborsInGridInOrder ==
    \A c \in Cells : Neighbors(grid, c[1], c[2]) = ExpectedNeighbors(c)

\* The search has visited a cell of a grid with walls and discovered a
\* neighbour of it.
C19_Witness ==
    /\ pc = "loop"
    /\ Walls # {}
    /\ Cardinality(DOMAIN prev) >= 2
    /\ Len(commands) >= 1

\* Signed coordinates around the grid, negative ones included.
SignedProbes == (-2 .. GridWidth + 1) \X (-2 .. GridHeight + 1)

\* C20: for signed (x, y), try_get(x, y) is the value stored at (x, y) when
\* 0 <= x < width and 0 <= y < height and absent otherwise;
\* are_coordinates_valid(x, y) is true exactly when try_get(x, y) is present;
\* and no two cells share a slot: after a set at one cell, try_get reads the
\* new value there and the old value everywhere else.
C20_TryGetIsCheckedAndExact ==
    /\ \A p \in SignedProbes :
          /\ TryGet(grid, p[1], p[2]) = IF InGrid(p) THEN Some(grid[SlotOf(p)]) ELSE None
          /\ AreCoordinatesValid(p[1], p[2]) <=> IsSome(TryGet(grid, p[1], p[2]))
    /\ \A c \in Cells, d \in Cells, v \in BOOLEAN :
          TryGet(GridSet(grid, c[1], c[2], v), d[1], d[2])
             = IF d = c THEN Some(v) ELSE TryGet(grid, d[1], d[2])

\* Two presses, each on a free cell that try_get reported free, have left
\* two walls, the pointer never having moved over the grid.
C20_Witness ==
    /\ pointer_mode = "SetWall"
    /\ Cardinality(Walls) = 2
    /\ active_cell = None
    /\ ~panicked

(***************************************************************************)
(* The cells a walk from st reaches through unoccupied cells of the grid:  *)
(* the least set holding st and closed under a step to an unoccupied       *)
(* 4-neighbour.  The occupancy of st itself plays no part.                 *)
(***************************************************************************)
Adjacent(a, b) ==
    \/ a[1] = b[1] /\ (a[2] = b[2] + 1 \/ b[2] = a[2] + 1)
    \/ a[2] = b[2] /\ (a[1] = b[1] + 1 \/ b[1] = a[1] + 1)

RECURSIVE Closure(_)
Closure(S) ==
    LET T == S \cup {c \in Cells : ~IsWall(c) /\ \E d \in S : Adjacent(c, d)}
    IN  IF T = S THEN S ELSE Closure(T)

ReachableFromStart == Closure({start})

Returned == pc \in {"returned", "rendered"}

IsValidPath(path) ==
    /\ Len(path) >= 1
    /\ path[1] = start
    /\ path[Len(path)] = finish
    /\ \A i \in 1 .. Len(path) : path[i] \in Cells
    /\ \A i \in 1 .. Len(path) - 1 : Adjacent(path[i], path[i + 1])
    /\ \A i \in 2 .. Len(path) : ~IsWall(path[i])

\* C6: with start # finish and finish reachable from start through
\* unoccupied cells, Dfs::find_path returns a path from start to finish whose
\* consecutive cells are 4-neighbours and whose cells after start are free.
C6_DfsFindsValidPath ==
    Returned /\ start # finish /\ finish \in ReachableFromStart
        => IsSome(maybe_path) /\ IsValidPath(Unwrap(maybe_path))

\* A path of three cells found around a wall.
C6_Witness ==
    /\ Returned
    /\ start # finish
    /\ \E c \in Cells : IsWall(c)
    /\ IsSome(maybe_path)
    /\ Len(Unwrap(maybe_path)) >= 3

\* C7 as stated: with start # finish and no wall-free path (finish occupied,
\* start occupied, or the two separated by walls), the result is None.
C7_NoWallFreePathGivesNone ==
    Returned /\ start # finish
             /\ (IsWall(start) \/ finish \notin ReachableFromStart)
        => maybe_path = None

\* C7 amended: with start # finish and finish not reachable from start
\* through unoccupied cells (the occupancy of start not counted), the result
\* is None.
C7_UnreachableGivesNone ==
    Returned /\ start # finish /\ finish \notin ReachableFromStart
        => maybe_path = None

\* None returned for a free finish cut off from a free start by walls, after
\* the search has popped start and run out of cells.
C7_Witness ==
    /\ Returned
    /\ start # finish
    /\ ~IsWall(finish)
    /\ ~IsWall(start)
    /\ finish \notin ReachableFromStart
    /\ maybe_path = None
    /\ stack = << >>
    /\ start \in DOMAIN prev

\* C8: with start = finish the call returns the one-cell path and an empty
\* log, and the search has discovered nothing (no predecessor, empty stack).
C8_SameCellShortcut ==
    Returned /\ start = finish
        => /\ maybe_path = Some(<<start>>)
           /\ commands = << >>
           /\ DOMAIN prev = {}
           /\ stack = << >>

\* The shortcut taken on a grid with walls, the cell itself occupied.
C8_Witness ==
    /\ Returned
    /\ start = finish
    /\ IsWall(start)
    /\ maybe_path = Some(<<start>>)

CountKind(log, kind) == Cardinality({i \in 1 .. Len(log) : log[i].kind = kind})

\* C9: find_and_render_path returns find_path's log as it is when no path
\* was found; when one was found it returns that log followed by Clear and
\* one SegmentedLine of the path, the only Clear being second to last and the
\* only SegmentedLine last.
C9_RenderAppendsClearAndPath ==
    pc = "rendered" =>
        IF maybe_path = None
        THEN out_commands = commands
        ELSE LET n == Len(out_commands)
             IN  /\ n = Len(commands) + 2
                 /\ SubSeq(out_commands, 1, n - 2) = commands
                 /\ out_commands[n - 1].kind = "Clear"
                 /\ out_commands[n].kind = "SegmentedLine"
                 /\ out_commands[n].points = Unwrap(maybe_path)
                 /\ CountKind(out_commands, "Clear") = 1
                 /\ CountKind(out_commands, "SegmentedLine") = 1

\* A found path rendered after a search that logged lines.
C9_Witness ==
    /\ pc = "rendered"
    /\ IsSome(maybe_path)
    /\ Len(commands) >= 2
    /\ Len(out_commands) = Len(commands) + 2

(***************************************************************************)
(* The render rule as the specification states it.                         *)
(***************************************************************************)
Max(a, b) == IF a > b THEN a ELSE b

\* floor(progress), progress being a number of ticks.
Floor(progress) == progress \div TicksPerCommand

RuleEnd(log, progress) == Max(0, Min(Floor(progress), Len(log)))

\* One plus the 0-based index of the last Clear in log[0..end), or 0.
RuleStart(log, end) ==
    LET clears == {i \in 1 .. end : log[i].kind = "Clear"}
    IN  IF clears = {} THEN 0
        ELSE CHOOSE i \in clears : \A j \in clears : j <= i

IsAddShape(cmd) == cmd.kind # "Clear"

RuleRendered(log, progress) ==
    LET end == RuleEnd(log, progress)
    IN  SelectSeq(SubSeq(log, RuleStart(log, end) + 1, end), IsAddShape)

\* C10: every draw renders, in log order, exactly the AddShape commands of
\* log[start..end) for the end and start of the render rule, taken on the log
\* and the progress the scene has when it is drawn.
C10_DrawFollowsRenderRule ==
    [][Frame => rendered'.animation = RuleRendered(draw_commands', animation_progress')]_vars

\* A frame drawn past a Clear: the shape before the Clear is hidden and the
\* shape after it is shown.
C10_Witness ==
    /\ Len(draw_commands) = 3
    /\ draw_commands[1].kind # "Clear"
    /\ draw_commands[2].kind = "Clear"
    /\ draw_commands[3].kind # "Clear"
    /\ animation_progress >= 3 * TicksPerCommand
    /\ rendered.animation = <<draw_commands[3]>>

\* The log has a Clear at position p (1-based: index p - 1 of the code) and
\* the progress has reached p commands.
ClearPassed(log, progress, p) ==
    /\ p \in 1 .. Len(log)
    /\ log[p].kind = "Clear"
    /\ progress >= p * TicksPerCommand

\* The shapes shown are a run of the log that ends where the animation ends
\* and begins after position p: nothing of log[1..p] is among them.
ShownAfter(log, progress, shown, p) ==
    LET end == Min(Len(log), Floor(progress))
    IN  /\ Len(shown) <= end - p
        /\ shown = SubSeq(log, end - Len(shown) + 1, end)

\* C11: in every frame drawn with a Clear at index k and progress >= k + 1,
\* no command of log[0..k) is rendered; and a frame (an update tick of
\* non-negative elapsed time, then a draw) never takes the progress back
\* below k + 1, so the exclusion holds in every later frame too.
C11_ClearExcludesEarlierCommands ==
    [][Frame =>
         \A p \in 1 .. Len(draw_commands) :
            /\ ClearPassed(draw_commands', animation_progress', p)
                  => ShownAfter(draw_commands', animation_progress', rendered'.animation, p)
            /\ ClearPassed(draw_commands, animation_progress, p)
                  => ClearPassed(draw_commands', animation_progress', p)]_vars

\* A frame drawn when the Clear that ends the log has been passed: nothing
\* is shown although a shape precedes the Clear.
C11_Witness ==
    /\ Len(draw_commands) = 2
    /\ draw_commands[1].kind = "Line"
    /\ draw_commands[2].kind = "Clear"
    /\ animation_progress >= 2 * TicksPerCommand
    /\ rendered.marks # << >>
    /\ rendered.animation = << >>

\* The single highlighted path is what the last frame rendered.
Revealed ==
    /\ draw_commands # << >>
    /\ draw_commands[Len(draw_commands)].kind = "SegmentedLine"
    /\ rendered.animation = <<draw_commands[Len(draw_commands)]>>

\* C12: once the log of a found path is installed, frames of positive
\* elapsed time lead to a frame that renders the SegmentedLine alone, and
\* every later frame renders the same.
C12_PathIsRevealedForGood == (draw_commands # << >>) ~> []Revealed

\* The path revealed after an exploration of two lines, the progress past
\* the end of the log.
C12_Witness ==
    /\ Len(draw_commands) = 4
    /\ draw_commands[1].kind = "Line"
    /\ draw_commands[3].kind = "Clear"
    /\ animation_progress >= 4 * TicksPerCommand
    /\ Revealed

\* C13: set_draw_commands sets the progress to the sentinel -1.; an update
\* from the sentinel sets it to 0 whatever the elapsed time; an update from a
\* progress in [0, len) adds the elapsed ticks; an update from a progress
\* >= len leaves it unchanged; and the progress is never anything else.
C13_ProgressStepping ==
    [][/\ \A log \in Logs :
             SetDrawCommands(log) => animation_progress' = -TicksPerCommand
       /\ \A inc \in 0 .. MaxStep :
             UpdateAndDrawScene(inc) =>
                LET len == Len(draw_commands) * TicksPerCommand
                IN  IF animation_progress = -TicksPerCommand
                    THEN animation_progress' = 0
                    ELSE IF animation_progress >= 0 /\ animation_progress < len
                    THEN animation_progress' = animation_progress + inc
                    ELSE /\ animation_progress >= len
                         /\ animation_progress' = animation_progress]_vars

\* The progress has run past the end of a log of two commands and a frame
\* has been drawn there.
C13_Witness ==
    /\ Len(draw_commands) = 2
    /\ animation_progress > 2 * TicksPerCommand
    /\ rendered.marks # << >>
    /\ Len(rendered.animation) >= 1

(***************************************************************************)
(* The script-backed find_path.                                            *)
(***************************************************************************)
\* The find_path call has ended, by returning or by panicking.
PyEnded == pc \in {"panicked", "returned", "rendered"}

\* C3: when the script raised (at its top level or in find_path, or
\* find_path is missing or not a function), find_path returns to its caller
\* with PathResult = absent, and the host does not panic.
C3_ScriptFailureReturnsAbsent ==
    PyEnded /\ py_result.tag = "err" => ~panicked /\ maybe_path = None

IsCoordinatePair(obj) ==
    /\ obj.tag = "tuple"
    /\ Len(obj.items) = 2
    /\ \A i \in 1 .. 2 : obj.items[i].tag = "int" /\ obj.items[i].int >= 0

\* The PathResult schema: absent, or a sequence of 2-tuples of non-negative
\* integers.
MatchesSchema(obj) ==
    \/ obj.tag = "none"
    \/ /\ obj.tag \in {"list", "tuple"}
       /\ \A i \in 1 .. Len(obj.items) : IsCoordinatePair(obj.items[i])

\* C4: when find_path returned a value outside the PathResult schema, the
\* call ends with an error returned to its caller: the host does not panic.
C4_SchemaMismatchIsReturned ==
    PyEnded /\ py_result.tag = "ok" /\ ~MatchesSchema(py_result.value) => ~panicked

\* C5: an empty sequence returned by the script is never accepted as a found
\* path, and find_and_render_path never appends Clear and a SegmentedLine of
\* no points.
C5_EmptySequenceRejected ==
    PyEnded /\ py_result.tag = "ok" /\ py_result.value.tag \in {"list", "tuple"}
            /\ py_result.value.items = << >>
        => /\ maybe_path # Some(<< >>)
           /\ \A i \in 1 .. Len(out_commands) :
                 out_commands[i].kind = "SegmentedLine" => out_commands[i].points # << >>

\* C22: from the scene of main.rs, whose start and finish differ, start and
\* finish are never the same cell after any sequence of pointer events.
C22_StartIsNotFinish == start # finish

\* Start and finish have changed places.
C22_Witness ==
    /\ start = SceneNew.finish
    /\ finish = SceneNew.start
    /\ ~panicked

(***************************************************************************)
(* The resources of Dfs::find_path.                                        *)
(***************************************************************************)
LineFrom(cmd) == cmd.points[1]

LineTo(cmd) == cmd.points[2]

\* The cells discovered before the i-th Line was logged.
DiscoveredBefore(i) == {start} \cup {LineTo(commands[j]) : j \in 1 .. i - 1}

\* The cell n steps up the predecessor map from c.
RECURSIVE Ancestor(_, _)
Ancestor(c, n) == IF n = 0 THEN c ELSE prev[Ancestor(c, n - 1)]

Searching == start # finish /\ pc # "call"

\* What holds of the log, the predecessor map and the stack in every state
\* of a search.
DfsResources ==
    Searching =>
        /\ Len(commands) <= NumValues - 1
        /\ \A i \in 1 .. Len(commands) :
              /\ commands[i].kind = "Line"
              /\ LineFrom(commands[i]) \in DiscoveredBefore(i)
              /\ LineTo(commands[i]) \in Cells \ DiscoveredBefore(i)
              /\ ~IsWall(LineTo(commands[i]))
              /\ Adjacent(LineFrom(commands[i]), LineTo(commands[i]))
              /\ prev[LineTo(commands[i])] = LineFrom(commands[i])
        /\ DOMAIN prev = DiscoveredBefore(Len(commands) + 1)
        /\ \A i \in 1 .. Len(stack) :
              /\ stack[i] \in DOMAIN prev
              /\ \A j \in 1 .. Len(stack) : stack[i] = stack[j] => i = j
        /\ \A c \in DOMAIN prev :
              \E n \in 0 .. Cardinality(DOMAIN prev) - 1 : Ancestor(c, n) = start
        /\ (pc = "reconstruct" /\ finish \in DOMAIN prev) \/ IsSome(maybe_path)
              => /\ commands # << >>
                 /\ LineTo(commands[Len(commands)]) = finish

\* A predecessor once given is kept, and a cell pushed on the stack has just
\* received its predecessor, so no cell is pushed twice.
DfsStep ==
    /\ \A c \in DOMAIN prev : c \in DOMAIN prev' /\ prev'[c] = prev[c]
    /\ pc = "loop" /\ stack # << >> =>
          \A i \in Len(stack) .. Len(stack') :
             stack'[i] \in (DOMAIN prev') \ (DOMAIN prev)

\* C23: Dfs::find_path ends on every grid; every cell receives a predecessor
\* at most once and is pushed at most once; the log holds at most
\* width*height - 1 Lines, each from a discovered cell to a newly discovered
\* unoccupied neighbour; the predecessor walk from every discovered cell
\* ends at start; and when a path is found the last Line ends at finish.
C23_DfsTerminatesWithinBounds ==
    /\ []DfsResources
    /\ [][DfsStep]_vars
    /\ <>Returned

\* A search that found no path has discovered every other cell of the grid
\* and logged width*height - 2 Lines.
C23_Witness ==
    /\ pc = "returned"
    /\ start # finish
    /\ maybe_path = None
    /\ IsWall(finish)
    /\ Len(commands) = NumValues - 2
    /\ stack = << >>

\* C24: for every log and every progress (the sentinel and values past the
\* end of the log included) draw_animation has 0 <= start <= end <= len, no
\* Clear lies in log[start..end), and the draw does not panic.
C24_SliceInRangeWithoutClear ==
    LET end == AnimationEnd(draw_commands, animation_progress)
        st == AnimationStart(draw_commands, end)
    IN  /\ 0 <= st
        /\ st <= end
        /\ end <= Len(draw_commands)
        /\ \A i \in st + 1 .. end : draw_commands[i].kind # "Clear"
        /\ ~DrawAnimation(draw_commands, animation_progress).panicked
        /\ ~panicked

\* A frame drawn past the end of a log that begins and ends with a Clear.
C24_Witness ==
    /\ Len(draw_commands) = 3
    /\ draw_commands[1].kind = "Clear"
    /\ draw_commands[2].kind # "Clear"
    /\ draw_commands[3].kind = "Clear"
    /\ animation_progress > 3 * TicksPerCommand
    /\ rendered.marks # << >>
    /\ rendered.animation = << >>
    /\ ~panicked

\* Both arguments of a draw_line call are 2-tuples of non-negative integers.
IsWellTypedCall(call) == IsCoordinatePair(call[1]) /\ IsCoordinatePair(call[2])

PairOf(obj) == <<obj.items[1].int, obj.items[2].int>>

\* The command one draw_line call is to record.
LineOfCall(call) ==
    IF IsWellTypedCall(call)
    THEN [kind |-> "Line", points |-> <<PairOf(call[1]), PairOf(call[2])>>,
          width |-> 5, color |-> "DARKGREEN"]
    ELSE [kind |-> "Line", points |-> << >>, width |-> 5, color |-> "DARKGREEN"]

LinesOfCalls(calls) == [i \in 1 .. Len(calls) |-> LineOfCall(calls[i])]

\* C21 as stated: the log a script-backed find_path returns holds exactly
\* one Line per draw_line call the script made in this invocation, in call
\* order, and nothing else.
C21_OneLinePerDrawLineCall ==
    Returned => commands = LinesOfCalls(draw_calls)

\* C21 amended: the log a script-backed find_path returns holds exactly one
\* Line (width 5) per draw_line call of this invocation whose two arguments
\* are 2-tuples of non-negative integers, in call order, and nothing else:
\* no Line for a call with other arguments, and no command of an earlier
\* invocation.
C21_OneLinePerWellTypedCall ==
    Returned => commands = LinesOfCalls(SelectSeq(draw_calls, IsWellTypedCall))

\* The second invocation has returned a log of one Line after two draw_line
\* calls, one of them with arguments that do not convert, while the log the
\* first invocation returned began with two Lines.
C21_Witness ==
    /\ runs = 2
    /\ pc = "returned"
    /\ Len(draw_calls) = 2
    /\ Len(commands) = 1
    /\ Len(out_commands) >= 2
    /\ out_commands[1].kind = "Line"
    /\ out_commands[2].kind = "Line"

(***************************************************************************)
(* The events of the frames.  Every step of SpecEvents is one frame.       *)
(***************************************************************************)
IsClick(e) == e.type \in {"MouseDown", "MouseUp"}

ClicksOf(events, b) == {i \in 1 .. Len(events) : IsClick(events[i]) /\ events[i].button = b}

\* C25: in every frame at most one click event per button is delivered; a
\* click event of a button is a MouseDown when the button's last click event
\* was a MouseUp or there was none, and a MouseUp when it was a MouseDown, so
\* the click events of a button alternate from MouseDown on and a held
\* button repeats none; and a MouseMoved of the frame is delivered after
\* every click event of the frame.
C25_ClicksAlternateAndPrecedeMove ==
    [][/\ \A b \in ButtonSet : Cardinality(ClicksOf(delivered', b)) <= 1
       /\ \A i \in 1 .. Len(delivered') :
             IsClick(delivered'[i]) =>
                delivered'[i].type = IF last_click[delivered'[i].button] = "MouseDown"
                                     THEN "MouseUp"
                                     ELSE "MouseDown"
       /\ \A i \in 1 .. Len(delivered'), j \in 1 .. Len(delivered') :
             delivered'[i].type = "MouseMoved" /\ IsClick(delivered'[j]) => j < i]_vars

\* A frame has delivered the release of the left button, the press of the
\* right one and then the move, while the middle button is still held.
C25_Witness ==
    /\ Len(delivered) = 3
    /\ delivered[1] = Event("MouseUp", "Left", mouse_position[1], mouse_position[2])
    /\ delivered[2].type = "MouseDown"
    /\ delivered[2].button = "Right"
    /\ delivered[3].type = "MouseMoved"
    /\ down_mouse_buttons = {"Right", "Middle"}
    /\ last_click["Middle"] = "MouseDown"
    /\ ~panicked

=============================================================================
